---- MODULE Spec2Model ----
(***************************************************************************)
(* Model of the Python execution service of Pynote-lite                    *)
(* (src/server/services/python-executor.ts): the PythonExecutor class, its *)
(* two registry maps, the child processes it spawns and the event handlers *)
(* it attaches to them.                                                    *)
(*                                                                         *)
(* Text is modelled as a sequence of one-character strings, so that the    *)
(* string tests of the code (includes, endsWith, split, trim, the regular  *)
(* expression of executeCell) are computed as the code computes them.      *)
(* A child process is identified by the number of the executeCell call     *)
(* that spawned it; the same number identifies the ExecutionSession object *)
(* and the closure of the handlers created by that call.                   *)
(***************************************************************************)
EXTENDS Integers, Sequences, FiniteSets, TLC

(***************************************************************************)
(* Bounds of the model.                                                    *)
(***************************************************************************)
\* number of executeCell calls in one behaviour
MaxExec == 2
\* number of stdout 'data' events in one behaviour
MaxData == 2
\* number of stderr 'data' events in one behaviour
MaxErrData == 1
\* number of 'data' events of the installation process
MaxPipData == 2
\* number of actions given to executeActions
MaxActions == 2
Ids == {"a", "b"}
Execs == 1..MaxExec

(***************************************************************************)
(* Text.                                                                   *)
(***************************************************************************)
\* String.prototype.includes
Includes(s, p) ==
  \E i \in 1..(Len(s) - Len(p) + 1) : SubSeq(s, i, i + Len(p) - 1) = p

\* String.prototype.endsWith
EndsWith(s, p) ==
  /\ Len(s) >= Len(p)
  /\ SubSeq(s, Len(s) - Len(p) + 1, Len(s)) = p

\* lines[lines.length - 1] of s.split('\n')
LastLine(s) ==
  LET nl == {i \in 1..Len(s) : s[i] = "\n"}
      last == IF nl = {} THEN 0 ELSE CHOOSE i \in nl : \A j \in nl : j <= i
  IN SubSeq(s, last + 1, Len(s))

WhiteSpace == {" ", "\n", "\t"}

\* String.prototype.trim
Trim(s) ==
  LET solid == {i \in 1..Len(s) : s[i] \notin WhiteSpace}
  IN IF solid = {} THEN <<>>
     ELSE SubSeq(s, CHOOSE i \in solid : \A j \in solid : i <= j,
                    CHOOSE i \in solid : \A j \in solid : j <= i)

\* the characters of \w that occur in the code units of the model
WordChars == {"i", "n", "p", "u", "t", "x", "r", "1"}

\* /\binput\s*\(/.test(code)
HasInput(code) ==
  \E i \in 1..Len(code) :
    /\ i + 4 <= Len(code)
    /\ SubSeq(code, i, i + 4) = <<"i", "n", "p", "u", "t">>
    /\ (i = 1 \/ code[i - 1] \notin WordChars)
    /\ \E j \in (i + 5)..Len(code) :
         /\ code[j] = "("
         /\ \A k \in (i + 5)..(j - 1) : code[k] \in WhiteSpace

\* the code units submitted in the model
CodePrint == <<"p", "r", "i", "n", "t", "(", "1", ")">>
CodeInput == <<"x", "=", "i", "n", "p", "u", "t", " ", "(", ")">>
CodeXInput == <<"x", "i", "n", "p", "u", "t", "(", ")">>
Codes == {CodePrint, CodeInput, CodeXInput}

\* the chunks a process writes to its standard output in the model
ChunkLine == <<"h", "i", "\n">>
ChunkAsk == <<"N", ":", " ">>
ChunkRepl == <<">", ">", ">", " ">>
Chunks == {ChunkLine, ChunkAsk}

\* further chunks, for the specification that exercises every part of the
\* condition of the stdout handler
ChunkCont == <<".", ".", ".", " ">>
ChunkWord == <<"\n", "o", "k">>
ChunkEnter == <<"E", "n", "t", "e", "r", " ", "x">>
ChunkInput == <<"\n", "i", "n", "p", "u", "t">>
ChunkWhy == <<"?">>
ChunkWhyLine == <<"?", "\n">>
DetectorChunks ==
  Chunks \cup {ChunkRepl, ChunkCont, ChunkWord, ChunkEnter, ChunkInput,
               ChunkWhy, ChunkWhyLine}

\* the chunk a process writes to its standard error in the model
ErrChunk == <<"E", "\n">>

\* the text forwarded by sendInput in the model
Inputs == {<<"4", "2">>}

\* err.message of a failed spawn
SpawnErrMessage == <<"E", "N", "O", "E", "N", "T">>

\* the line executeInteractiveCell writes to the interpreter
ExecLine == <<"e", "x", "e", "c", "(", ")", "\n">>

\* the condition of the if statement of the stdout handler
DetectsInputDespiteContinuation(buffer, text) ==
  LET lastLine == LastLine(buffer)
  IN /\ lastLine # <<>>
     /\ ~Includes(lastLine, <<">", ">", ">">>)
     /\ \/ Includes(buffer, <<">", ">", ">", " ">>)
        \/ EndsWith(text, <<":", " ">>)
        \/ Includes(text, <<"E", "n", "t", "e", "r", " ">>)
        \/ Includes(text, <<"i", "n", "p", "u", "t">>)
        \/ Includes(text, <<"?">>)
DetectsInput(buffer, text) ==
  LET lastLine == LastLine(buffer)
  IN /\ lastLine # <<>>
     /\ ~Includes(lastLine, <<">", ">", ">">>)
     /\ ~Includes(lastLine, <<".", ".", ".">>)
     /\ \/ Includes(buffer, <<">", ">", ">", " ">>)
        \/ EndsWith(text, <<":", " ">>)
        \/ Includes(text, <<"E", "n", "t", "e", "r", " ">>)
        \/ Includes(text, <<"i", "n", "p", "u", "t">>)
        \/ Includes(text, <<"?">>)

(***************************************************************************)
(* Results and promises.                                                   *)
(***************************************************************************)
\* exit code of the 'close' event of a process ended by a signal (null)
NullCode == -1
\* exit code of the 'close' event that follows a failed spawn
SpawnErrCode == -2

ExitCodes == {0, 1, NullCode, SpawnErrCode}

ResultWithoutError(output, error, success, waiting, prompt) ==
  [output |-> output, error |-> <<>>, success |-> success,
   isWaitingForInput |-> waiting, inputPrompt |-> prompt]
Result(output, error, success, waiting, prompt) ==
  [output |-> output, error |-> error, success |-> success,
   isWaitingForInput |-> waiting, inputPrompt |-> prompt]

NoResult == Result(<<>>, <<>>, FALSE, FALSE, <<>>)

\* success: code === 0
SucceededUnlessOne(code) == code # 1
Succeeded(code) == code = 0

\* the result of the "error" handlers
FailedToStartAsSuccess(message) == Result(<<>>, message, TRUE, FALSE, <<>>)
FailedToStart(message) == Result(<<>>, message, FALSE, FALSE, <<>>)

\* a promise that no handler has resolved; calls counts the calls of resolve
NewPromise == [state |-> "pending", calls |-> 0, value |-> NoResult]

\* resolve(v): only the first call settles the promise
Resolve(p, v) ==
  [state |-> "resolved", calls |-> p.calls + 1,
   value |-> IF p.state = "pending" THEN v ELSE p.value]

NewClosure == [output |-> <<>>, error |-> <<>>, buffer |-> <<>>]

NewSession ==
  [output |-> <<>>, error |-> <<>>, isWaitingForInput |-> FALSE,
   inputPrompt |-> <<>>]

\* session.isWaitingForInput = false; session.inputPrompt = ""
ResumedStillWaiting(s) == [s EXCEPT !.inputPrompt = <<>>]
ResumedWithFreshOutput(s) ==
  [s EXCEPT !.isWaitingForInput = FALSE, !.inputPrompt = <<>>, !.output = <<>>]
Resumed(s) == [s EXCEPT !.isWaitingForInput = FALSE, !.inputPrompt = <<>>]

\* what has happened to a call: the detector classified positive at least
\* once, the number of times the session began to wait for input, who killed
\* the process, whether a request was pending when stopExecution or
\* stopAllExecution killed it, and how the execution ended
NewHistory ==
  [matched |-> FALSE, pauses |-> 0, killedBy |-> "none", inflight |-> FALSE,
   terminal |-> "none"]

(***************************************************************************)
(* generateNotebookPy, generateNotebookIpynb.  A cell is a record with a   *)
(* type, a content and an optional output; the optional output is a        *)
(* sequence that is empty (undefined) or holds the output text.            *)
(***************************************************************************)
\* number of cells of a notebook
MaxCells == 2

CellTypes == {"python", "markdown"}
Contents == {<<"a">>, <<"\"", "\n">>}
Outputs == {<< >>, << <<>> >>, << <<"7">> >>}
Cells == [type : CellTypes, content : Contents, output : Outputs]

CellSeqs == UNION {[1..n -> Cells] : n \in 0..MaxCells}

\* script and notebook hold nothing before the function is called, and the
\* value the function returned after
NotCalled == << >>

Digits == <<"0", "1", "2", "3", "4", "5", "6", "7", "8", "9">>

\* `${n}` of a number
RECURSIVE Decimal(_)
Decimal(n) ==
  IF n < 10 THEN <<Digits[n + 1]>>
  ELSE Decimal(n \div 10) \o <<Digits[(n % 10) + 1]>>

\* index + 1
CellNumberFromZero(index) == index
CellNumber(index) == index + 1

\* the callback of cells.map in generateNotebookPy; index counts from 0
PySection(cell, index) ==
  IF cell.type = "python"
  THEN <<"#", " ", "C", "e", "l", "l", " ">> \o Decimal(CellNumber(index))
         \o <<"\n">> \o cell.content \o <<"\n">>
  ELSE <<"#", " ", "M", "a", "r", "k", "d", "o", "w", "n", " ",
         "C", "e", "l", "l", " ">> \o Decimal(CellNumber(index))
         \o <<"\n", "\"", "\"", "\"", "\n">> \o cell.content
         \o <<"\n", "\"", "\"", "\"", "\n">>

\* Array.prototype.join
RECURSIVE Join(_, _)
Join(texts, sep) ==
  IF texts = << >> THEN << >>
  ELSE IF Len(texts) = 1 THEN texts[1]
  ELSE texts[1] \o sep \o Join(Tail(texts), sep)

NotebookPy(cs) ==
  Join([i \in 1..Len(cs) |-> PySection(cs[i], i - 1)], <<"\n">>)

\* JSON.stringify of one character of a string
JsonChar(ch) ==
  IF ch = "\"" THEN <<"\\", "\"">>
  ELSE IF ch = "\\" THEN <<"\\", "\\">>
  ELSE IF ch = "\n" THEN <<"\\", "n">>
  ELSE <<ch>>

\* JSON.stringify of a string
RECURSIVE JsonEscape(_)
JsonEscape(text) ==
  IF text = << >> THEN << >> ELSE JsonChar(Head(text)) \o JsonEscape(Tail(text))

JsonString(text) == <<"\"">> \o JsonEscape(text) \o <<"\"">>

\* cell.output ? ... : ...
Truthy(output) == output # << >> /\ output[1] # << >>

\* cell.type === "python" ? "code" : "markdown"
CellKind(type) == IF type = "python" THEN "code" ELSE "markdown"

\* the callback of cells.map in generateNotebookIpynb, as JSON.stringify
\* writes it: the strings are JSON strings, null is 0 (the execution counts
\* are positive); index counts from 0
IpynbCell(cell, index) ==
  [cell_type |-> CellKind(cell.type),
   execution_count |-> IF cell.type = "python" THEN index + 1 ELSE 0,
   outputs |-> IF Truthy(cell.output)
               THEN <<[output_type |-> "stream", name |-> "stdout",
                       text |-> <<JsonString(cell.output[1])>>]>>
               ELSE << >>,
   source |-> <<JsonString(cell.content)>>]

\* the notebook object as JSON.stringify writes it
NotebookIpynb(cs) ==
  [cells |-> [i \in 1..Len(cs) |-> IpynbCell(cs[i], i - 1)],
   nbformat |-> 4,
   nbformat_minor |-> 4]

(***************************************************************************)
(* State.                                                                  *)
(***************************************************************************)
VARIABLES
  activeProcesses,    \* Map cellId -> process
  executionSessions,  \* Map cellId -> session
  nexec,              \* number of executeCell calls so far
  cellId,             \* per call: the identifier it was given
  path,               \* per call: "plain" or "interactive"
  proc,               \* per call: the state of the spawned process
  exitCode,           \* per call: the code of the process's close event
  closure,            \* per call: the handlers' variables output, error, buffer
  session,            \* per call: the fields of its ExecutionSession
  deadline,           \* per call: whether 10000 ms have passed since startTime
  execPromise,        \* per call: the promise executeCell returned
  resumePromises,     \* per call: the promises of the accepted sendInput calls
  stdinLog,           \* per call: what was written to the process's stdin
  fault,              \* an 'error' event was emitted with no listener
  nData,              \* number of stdout 'data' events so far
  nErrData,           \* number of stderr 'data' events so far
  history,            \* per call: what has happened to it
  stopAllSeen,        \* stopAllExecution was called after the last executeCell
  cells,              \* the cells given to the export functions
  script,             \* what generateNotebookPy returned for cells
  notebook,           \* what generateNotebookIpynb returned for cells
  pipProcess,         \* the state of the process installRequirements spawned
  pipExit,            \* the code of that process's close event
  pipClosure,         \* the handlers' variables output and error of that call
  pipPromise,         \* the promise installRequirements returned
  nPipData,           \* number of 'data' events of that process so far
  store,              \* MemStorage.cells: Map id -> cell
  routeCell,          \* the cell of the execute request that awaits its result
  routeResult,        \* the result executeCell gave the execute route last
  actions,            \* the actions given to executeActions
  agentCell,          \* the cell of the execute_cell action that awaits
  results             \* the results executeActions has pushed

executorVars ==
  <<activeProcesses, executionSessions, nexec, cellId, path, proc, exitCode,
    closure, session, deadline, execPromise, resumePromises, stdinLog, fault,
    nData, nErrData, history, stopAllSeen>>

renderVars == <<cells, script, notebook>>

installVars == <<pipProcess, pipExit, pipClosure, pipPromise, nPipData>>

serverVars == <<store, routeCell, routeResult, actions, agentCell, results>>

vars == <<executorVars, renderVars, installVars, serverVars>>

\* the executor after its constructor
Constructed ==
  /\ activeProcesses = << >>
  /\ executionSessions = << >>
  /\ nexec = 0
  /\ cellId = [e \in Execs |-> "none"]
  /\ path = [e \in Execs |-> "none"]
  /\ proc = [e \in Execs |-> "none"]
  /\ exitCode = [e \in Execs |-> NullCode]
  /\ closure = [e \in Execs |-> NewClosure]
  /\ session = [e \in Execs |-> NewSession]
  /\ deadline = [e \in Execs |-> "none"]
  /\ execPromise = [e \in Execs |-> NewPromise]
  /\ resumePromises = [e \in Execs |-> << >>]
  /\ stdinLog = [e \in Execs |-> << >>]
  /\ fault = FALSE
  /\ nData = 0
  /\ nErrData = 0
  /\ history = [e \in Execs |-> NewHistory]
  /\ stopAllSeen = FALSE

\* the identifiers of the cells in the storage
CellIds == {"c1", "c2"}

\* an output, or an argument, that is null or undefined
Absent == << >>

\* the cell createCell stores
NewCell(type, content) ==
  [type |-> type, content |-> content, output |-> Absent, executed |-> FALSE]

\* the storage after a python cell and a markdown cell have been created,
\* with no request in progress
Stored ==
  /\ store = [id \in CellIds |->
               NewCell(IF id = "c1" THEN "python" ELSE "markdown", <<"a">>)]
  /\ routeCell = Absent
  /\ routeResult = Absent
  /\ actions = NotCalled
  /\ agentCell = Absent
  /\ results = << >>

\* installRequirements has not been called
NotInstalling ==
  /\ pipProcess = "none"
  /\ pipExit = NullCode
  /\ pipClosure = [output |-> <<>>, error |-> <<>>]
  /\ pipPromise = NewPromise
  /\ nPipData = 0

Init ==
  /\ Constructed
  /\ cells = << >>
  /\ script = NotCalled
  /\ notebook = NotCalled
  /\ NotInstalling
  /\ Stored

(***************************************************************************)
(* The registry maps.                                                      *)
(***************************************************************************)
\* Map.prototype.has
Has(map, id) == id \in DOMAIN map

\* Map.prototype.set
MapSet(map, id, v) ==
  [i \in DOMAIN map \cup {id} |-> IF i = id THEN v ELSE map[i]]

\* Map.prototype.delete
MapDeleteNothing(map, id) == map
MapDelete(map, id) == [i \in DOMAIN map \ {id} |-> map[i]]

\* a process that has been spawned and whose 'close' event has not been handled
Live(e) == proc[e] \in {"running", "killed"}

\* the 'error' event of a failed spawn is emitted on the next tick of the
\* event loop, before any other event is handled
ErrorPending ==
  \/ \E e \in Execs : proc[e] = "spawnfail"
  \/ pipProcess = "spawnfail"

\* ChildProcess.kill(): signals a running process, no effect on any other
KillEvery(procs, e) ==
  [d \in DOMAIN procs |-> IF procs[d] = "running" THEN "killed" ELSE procs[d]]
Kill(procs, e) == [procs EXCEPT ![e] = IF @ = "running" THEN "killed" ELSE @]

\* k copies of a chunk, one after the other
RECURSIVE Repeat(_, _)
Repeat(chunk, k) == IF k = 0 THEN <<>> ELSE chunk \o Repeat(chunk, k - 1)

\* the request of a call that the caller is still waiting for
LastRequest(e) ==
  IF resumePromises[e] = << >> THEN execPromise[e]
  ELSE resumePromises[e][Len(resumePromises[e])]

(***************************************************************************)
(* executeCell(cellId, code), executeInteractiveCell(cellId, code)         *)
(***************************************************************************)
executeCell(id, code, spawned) ==
  LET e == nexec + 1 IN
  /\ ~ErrorPending
  /\ nexec < MaxExec
  /\ nexec' = e
  /\ cellId' = [cellId EXCEPT ![e] = id]
  /\ deadline' = [deadline EXCEPT ![e] = "armed"]
  /\ proc' = [proc EXCEPT ![e] = IF spawned THEN "running" ELSE "spawnfail"]
  /\ activeProcesses' = MapSet(activeProcesses, id, e)
  /\ IF HasInput(code)
     THEN /\ path' = [path EXCEPT ![e] = "interactive"]
          /\ executionSessions' = MapSet(executionSessions, id, e)
          /\ stdinLog' = [stdinLog EXCEPT ![e] = <<ExecLine>>]
     ELSE /\ path' = [path EXCEPT ![e] = "plain"]
          /\ UNCHANGED <<executionSessions, stdinLog>>
  /\ stopAllSeen' = FALSE
  /\ UNCHANGED <<renderVars, installVars, serverVars>>
  /\ UNCHANGED <<exitCode, closure, session, execPromise, resumePromises,
                 fault, nData, nErrData, history>>

(***************************************************************************)
(* pythonProcess.on("error", ...)                                          *)
(***************************************************************************)
onError(e) ==
  /\ proc[e] = "spawnfail"
  /\ proc' = [proc EXCEPT ![e] = "errored"]
  /\ activeProcesses' = MapDelete(activeProcesses, cellId[e])
  /\ executionSessions' =
       IF path[e] = "interactive"
       THEN MapDelete(executionSessions, cellId[e])
       ELSE executionSessions
  /\ execPromise' =
       [execPromise EXCEPT ![e] =
          Resolve(@, FailedToStart(SpawnErrMessage))]
  /\ history' = [history EXCEPT ![e].terminal = "failed"]
  /\ UNCHANGED <<renderVars, installVars, serverVars>>
  /\ UNCHANGED <<nexec, cellId, path, exitCode, closure, session, deadline,
                 resumePromises, stdinLog, fault, nData, nErrData, stopAllSeen>>

(***************************************************************************)
(* pythonProcess.stdout.on("data", ...), and the onData listeners that the *)
(* accepted sendInput calls have added to the same stream                  *)
(***************************************************************************)
onStdoutData(e, text) ==
  LET c == closure[e]
      buffer == c.buffer \o text
      output == c.output \o text
      detected == DetectsInput(buffer, text)
      prompt == Trim(LastLine(buffer))
      listeners == Len(resumePromises[e])
  IN
  /\ ~ErrorPending
  /\ Live(e)
  /\ nData < MaxData
  /\ nData' = nData + 1
  /\ IF path[e] = "plain"
     THEN /\ closure' = [closure EXCEPT ![e].output = output]
          /\ UNCHANGED <<session, execPromise, history>>
     ELSE /\ closure' = [closure EXCEPT ![e].output = output,
                                        ![e].buffer = buffer]
          /\ session' =
               [session EXCEPT
                  ![e].output = @ \o text \o Repeat(text, listeners),
                  ![e].isWaitingForInput = IF detected THEN TRUE ELSE @,
                  ![e].inputPrompt = IF detected THEN prompt ELSE @]
          /\ execPromise' =
               [execPromise EXCEPT ![e] =
                  IF detected
                  THEN Resolve(@, Result(output, c.error, FALSE, TRUE, prompt))
                  ELSE @]
          /\ history' =
               [history EXCEPT
                  ![e].matched = @ \/ detected,
                  ![e].pauses =
                    IF detected /\ ~session[e].isWaitingForInput
                    THEN @ + 1 ELSE @]
  /\ UNCHANGED <<renderVars, installVars, serverVars>>
  /\ UNCHANGED <<activeProcesses, executionSessions, nexec, cellId, path, proc,
                 exitCode, deadline, resumePromises, stdinLog, fault, nErrData,
                 stopAllSeen>>

(***************************************************************************)
(* pythonProcess.stderr.on("data", ...), and the onError listeners of the  *)
(* accepted sendInput calls                                                *)
(***************************************************************************)
onStderrData(e, text) ==
  LET listeners == Len(resumePromises[e]) IN
  /\ ~ErrorPending
  /\ Live(e)
  /\ nErrData < MaxErrData
  /\ nErrData' = nErrData + 1
  /\ closure' = [closure EXCEPT ![e].error = @ \o text]
  /\ session' =
       IF path[e] = "interactive"
       THEN [session EXCEPT ![e].error = @ \o text \o Repeat(text, listeners)]
       ELSE session
  /\ UNCHANGED <<renderVars, installVars, serverVars>>
  /\ UNCHANGED <<activeProcesses, executionSessions, nexec, cellId, path, proc,
                 exitCode, deadline, execPromise, resumePromises, stdinLog,
                 fault, nData, history, stopAllSeen>>

(***************************************************************************)
(* pythonProcess.on("close", ...), and the onClose listeners of the        *)
(* accepted sendInput calls.  The code is 0 or 1 when the interpreter ends *)
(* by itself, null after a kill, and the error number after a failed spawn.*)
(***************************************************************************)
onClose(e, code) ==
  LET c == closure[e]
      s == session[e]
  IN
  /\ ~ErrorPending
  /\ \/ proc[e] = "running" /\ code \in {0, 1}
     \/ proc[e] = "killed" /\ code = NullCode
     \/ proc[e] = "errored" /\ code = SpawnErrCode
  /\ proc' = [proc EXCEPT ![e] = "closed"]
  /\ exitCode' = [exitCode EXCEPT ![e] = code]
  /\ activeProcesses' = MapDelete(activeProcesses, cellId[e])
  /\ executionSessions' =
       IF path[e] = "interactive"
       THEN MapDelete(executionSessions, cellId[e])
       ELSE executionSessions
  /\ execPromise' =
       [execPromise EXCEPT ![e] =
          Resolve(@, Result(c.output, c.error, Succeeded(code), FALSE, <<>>))]
  /\ resumePromises' =
       [resumePromises EXCEPT ![e] =
          [k \in DOMAIN @ |->
             Resolve(@[k], Result(s.output, s.error, Succeeded(code), FALSE, <<>>))]]
  /\ history' =
       [history EXCEPT ![e].terminal =
          IF @ # "none" THEN @
          ELSE IF Succeeded(code) THEN "completed" ELSE "failed"]
  /\ UNCHANGED <<renderVars, installVars, serverVars>>
  /\ UNCHANGED <<nexec, cellId, path, closure, session, deadline, stdinLog,
                 fault, nData, nErrData, stopAllSeen>>

(***************************************************************************)
(* 10000 ms have passed since the call was made.  The deadlines pass in    *)
(* the order of the calls.  On the interactive path the callback of        *)
(* setTimeout runs; executeCell itself sets no timer.                      *)
(***************************************************************************)
onTimeout(e) ==
  LET c == closure[e] IN
  /\ ~ErrorPending
  /\ deadline[e] = "armed"
  /\ \A d \in 1..(e - 1) : deadline[d] = "passed"
  /\ deadline' = [deadline EXCEPT ![e] = "passed"]
  /\ IF path[e] = "interactive" /\ Has(executionSessions, cellId[e])
     THEN /\ proc' = Kill(proc, e)
          /\ activeProcesses' = MapDelete(activeProcesses, cellId[e])
          /\ executionSessions' = MapDelete(executionSessions, cellId[e])
          /\ execPromise' =
               [execPromise EXCEPT ![e] =
                  Resolve(@, Result(c.output, c.error, TRUE, FALSE, <<>>))]
          /\ history' =
               [history EXCEPT
                  ![e].killedBy =
                    IF proc[e] = "running" THEN "timeout" ELSE @,
                  ![e].terminal =
                    IF @ = "none" /\ Live(e) THEN "timeout" ELSE @]
     ELSE UNCHANGED <<proc, activeProcesses, executionSessions, execPromise,
                      history>>
  /\ UNCHANGED <<renderVars, installVars, serverVars>>
  /\ UNCHANGED <<nexec, cellId, path, exitCode, closure, session,
                 resumePromises, stdinLog, fault, nData, nErrData, stopAllSeen>>

(***************************************************************************)
(* sendInput(cellId, input)                                                *)
(***************************************************************************)
\* the condition under which sendInput throws
sendInputThrows(id) ==
  \/ ~Has(executionSessions, id)
  \/ ~session[executionSessions[id]].isWaitingForInput

sendInput(id, input) ==
  /\ ~ErrorPending
  /\ IF sendInputThrows(id)
     THEN UNCHANGED <<session, stdinLog, fault, resumePromises>>
     ELSE LET e == executionSessions[id] IN
          /\ session' = [session EXCEPT ![e] = Resumed(@)]
          /\ IF proc[e] = "running"
             THEN /\ stdinLog' =
                       [stdinLog EXCEPT ![e] = Append(@, input \o <<"\n">>)]
                  /\ fault' = fault
             ELSE /\ stdinLog' = stdinLog
                  /\ fault' = TRUE
          /\ resumePromises' =
               [resumePromises EXCEPT ![e] = Append(@, NewPromise)]
  /\ UNCHANGED <<renderVars, installVars, serverVars>>
  /\ UNCHANGED <<activeProcesses, executionSessions, nexec, cellId, path, proc,
                 exitCode, closure, deadline, execPromise, nData, nErrData,
                 history, stopAllSeen>>

(***************************************************************************)
(* stopExecution(cellId)                                                   *)
(***************************************************************************)
\* what a kill requested by the caller leaves in the history of a process
Cancelled(h, e) ==
  IF proc[e] = "running"
  THEN [h EXCEPT !.killedBy = "cancel",
                 !.inflight = (LastRequest(e).state = "pending"),
                 !.terminal = "terminated"]
  ELSE h

\* the value stopExecution returns
stopExecutionReturns(id) == Has(activeProcesses, id)

stopExecution(id) ==
  /\ ~ErrorPending
  /\ IF stopExecutionReturns(id)
     THEN LET e == activeProcesses[id] IN
          /\ proc' = Kill(proc, e)
          /\ activeProcesses' = MapDelete(activeProcesses, id)
          /\ history' = [history EXCEPT ![e] = Cancelled(@, e)]
     ELSE UNCHANGED <<proc, activeProcesses, history>>
  /\ UNCHANGED <<renderVars, installVars, serverVars>>
  /\ UNCHANGED <<executionSessions, nexec, cellId, path, exitCode, closure,
                 session, deadline, execPromise, resumePromises, stdinLog,
                 fault, nData, nErrData, stopAllSeen>>

(***************************************************************************)
(* stopAllExecution()                                                      *)
(***************************************************************************)
stopAllExecution ==
  LET killed == {activeProcesses[id] : id \in DOMAIN activeProcesses} IN
  /\ ~ErrorPending
  /\ proc' = [e \in Execs |-> IF e \in killed THEN Kill(proc, e)[e] ELSE proc[e]]
  /\ activeProcesses' = << >>
  /\ history' =
       [e \in Execs |->
          IF e \in killed THEN Cancelled(history[e], e) ELSE history[e]]
  /\ stopAllSeen' = TRUE
  /\ UNCHANGED <<renderVars, installVars, serverVars>>
  /\ UNCHANGED <<executionSessions, nexec, cellId, path, exitCode, closure,
                 session, deadline, execPromise, resumePromises, stdinLog,
                 fault, nData, nErrData>>

Next ==
  \/ \E id \in Ids, code \in Codes, spawned \in BOOLEAN :
       executeCell(id, code, spawned)
  \/ \E e \in Execs : onError(e)
  \/ \E e \in Execs, text \in Chunks : onStdoutData(e, text)
  \/ \E e \in Execs : onStderrData(e, ErrChunk)
  \/ \E e \in Execs, code \in ExitCodes : onClose(e, code)
  \/ \E e \in Execs : onTimeout(e)
  \/ \E id \in Ids, input \in Inputs : sendInput(id, input)
  \/ \E id \in Ids : stopExecution(id)
  \/ stopAllExecution

Spec == Init /\ [][Next]_vars

(***************************************************************************)
(* The interactive path alone while its processes run, with processes     *)
(* that write chunks of every shape the condition of the stdout handler    *)
(* distinguishes.                                                          *)
(***************************************************************************)
DetectorNext ==
  \/ \E id \in Ids : executeCell(id, CodeInput, TRUE)
  \/ \E e \in Execs, text \in DetectorChunks : onStdoutData(e, text)
  \/ \E id \in Ids, input \in Inputs : sendInput(id, input)

DetectorSpec == Init /\ [][DetectorNext]_vars

(***************************************************************************)
(* The export functions, applied to every notebook of at most MaxCells     *)
(* cells.  They read nothing of the executor.                              *)
(***************************************************************************)
RenderInit ==
  /\ Constructed
  /\ cells \in CellSeqs
  /\ script = NotCalled
  /\ notebook = NotCalled
  /\ NotInstalling
  /\ Stored

generateNotebookPy ==
  /\ script' = <<NotebookPy(cells)>>
  /\ UNCHANGED <<cells, notebook>>
  /\ UNCHANGED <<executorVars, installVars, serverVars>>

generateNotebookIpynb ==
  /\ notebook' = <<NotebookIpynb(cells)>>
  /\ UNCHANGED <<cells, script>>
  /\ UNCHANGED <<executorVars, installVars, serverVars>>

RenderNext == generateNotebookPy \/ generateNotebookIpynb

RenderSpec == RenderInit /\ [][RenderNext]_vars

(***************************************************************************)
(* installRequirements(requirementsContent): pip is spawned with the       *)
(* requirements file the call has written; the handlers of its streams     *)
(* and of its 'close' and 'error' events are the only code that refers to  *)
(* the process.  One call is made in the model.                            *)
(***************************************************************************)
\* the result of the 'close' handler
InstalledWhateverTheCode(c, code) == Result(c.output, c.error, TRUE, FALSE, <<>>)
Installed(c, code) == Result(c.output, c.error, Succeeded(code), FALSE, <<>>)

installRequirements(spawned) ==
  /\ ~ErrorPending
  /\ pipProcess = "none"
  /\ pipProcess' = IF spawned THEN "running" ELSE "spawnfail"
  /\ UNCHANGED <<pipExit, pipClosure, pipPromise, nPipData>>
  /\ UNCHANGED <<executorVars, renderVars, serverVars>>

\* pipProcess.stdout.on("data", ...)
onPipStdoutData(text) ==
  /\ ~ErrorPending
  /\ pipProcess = "running"
  /\ nPipData < MaxPipData
  /\ nPipData' = nPipData + 1
  /\ pipClosure' = [pipClosure EXCEPT !.output = @ \o text]
  /\ UNCHANGED <<pipProcess, pipExit, pipPromise>>
  /\ UNCHANGED <<executorVars, renderVars, serverVars>>

\* pipProcess.stderr.on("data", ...)
onPipStderrData(text) ==
  /\ ~ErrorPending
  /\ pipProcess = "running"
  /\ nPipData < MaxPipData
  /\ nPipData' = nPipData + 1
  /\ pipClosure' = [pipClosure EXCEPT !.error = @ \o text]
  /\ UNCHANGED <<pipProcess, pipExit, pipPromise>>
  /\ UNCHANGED <<executorVars, renderVars, serverVars>>

\* pipProcess.on("close", ...)
onPipClose(code) ==
  /\ ~ErrorPending
  /\ \/ pipProcess = "running" /\ code \in {0, 1}
     \/ pipProcess = "errored" /\ code = SpawnErrCode
  /\ pipProcess' = "closed"
  /\ pipExit' = code
  /\ pipPromise' = Resolve(pipPromise, Installed(pipClosure, code))
  /\ UNCHANGED <<pipClosure, nPipData>>
  /\ UNCHANGED <<executorVars, renderVars, serverVars>>

\* pipProcess.on("error", ...)
onPipError ==
  /\ pipProcess = "spawnfail"
  /\ pipProcess' = "errored"
  /\ pipPromise' = Resolve(pipPromise, FailedToStart(SpawnErrMessage))
  /\ UNCHANGED <<pipExit, pipClosure, nPipData>>
  /\ UNCHANGED <<executorVars, renderVars, serverVars>>

\* an installation beside interactive executions, their timers and the
\* cancellations
InstallNext ==
  \/ \E spawned \in BOOLEAN : installRequirements(spawned)
  \/ \E text \in Chunks : onPipStdoutData(text)
  \/ onPipStderrData(ErrChunk)
  \/ \E code \in ExitCodes : onPipClose(code)
  \/ onPipError
  \/ \E id \in Ids : executeCell(id, CodeInput, TRUE)
  \/ \E e \in Execs, code \in ExitCodes : onClose(e, code)
  \/ \E e \in Execs : onTimeout(e)
  \/ \E id \in Ids : stopExecution(id)
  \/ stopAllExecution

InstallSpec == Init /\ [][InstallNext]_vars

(***************************************************************************)
(* MemStorage.updateCell and deleteCell, the routes PUT /api/cells/:id,    *)
(* DELETE /api/cells/:id and POST /api/cells/:id/execute, and              *)
(* AgentActionExecutor.executeActions.  A request that awaits the result   *)
(* of pythonExecutor.executeCell is completed by a later step with one of  *)
(* the results the executor resolves with; other requests run in between. *)
(***************************************************************************)
\* the contents a request gives
NewContents == {<<"b">>}

\* a || b
CoalesceFalsy(a, b) == IF Truthy(a) THEN a ELSE b
\* a ?? b
Coalesce(a, b) == IF a # Absent THEN a ELSE b

\* MemStorage.updateCell(id, content, output): the map after the call
UpdateCell(cs, id, content, output) ==
  IF Has(cs, id)
  THEN MapSet(cs, id,
              [cs[id] EXCEPT !.content = content,
                             !.output = Coalesce(output, @),
                             !.executed = IF output # Absent THEN TRUE ELSE @])
  ELSE cs

\* results of pythonExecutor.executeCell: a run that succeeded, a run that
\* failed, a run that waits for input
RouteResults ==
  {Result(ChunkLine, <<>>, TRUE, FALSE, <<>>),
   Result(ChunkLine, ErrChunk, FALSE, FALSE, <<>>),
   Result(ChunkAsk, <<>>, FALSE, TRUE, Trim(ChunkAsk))}

\* const output = result.success ? result.output : result.error
OutputOf(result) == IF result.success THEN result.output ELSE result.error

\* PUT /api/cells/:id
putCell(id, content) ==
  /\ store' = UpdateCell(store, id, content, Absent)
  /\ UNCHANGED <<routeCell, routeResult, actions, agentCell, results>>
  /\ UNCHANGED <<executorVars, renderVars, installVars>>

\* DELETE /api/cells/:id
deleteCell(id) ==
  /\ store' = MapDelete(store, id)
  /\ UNCHANGED <<routeCell, routeResult, actions, agentCell, results>>
  /\ UNCHANGED <<executorVars, renderVars, installVars>>

\* POST /api/cells/:id/execute, up to the await of executeCell for a python
\* cell and to the response for a markdown cell or a missing cell
postExecute(id, content) ==
  LET updated == UpdateCell(store, id, content, Absent) IN
  /\ routeCell = Absent
  /\ IF ~Has(store, id)
     THEN UNCHANGED <<store, routeCell, routeResult>>
     ELSE IF store[id].type = "python"
     THEN /\ store' = updated
          /\ routeCell' = <<[id |-> id, content |-> content]>>
          /\ routeResult' = routeResult
     ELSE /\ store' = UpdateCell(updated, id, content, <<content>>)
          /\ routeResult' = routeResult
          /\ routeCell' = routeCell
  /\ UNCHANGED <<actions, agentCell, results>>
  /\ UNCHANGED <<executorVars, renderVars, installVars>>

\* POST /api/cells/:id/execute, from the result of executeCell on
postExecuteResolved(result) ==
  /\ routeCell # Absent
  /\ LET cell == routeCell[1] IN
     /\ store' = UpdateCell(store, cell.id, cell.content, <<OutputOf(result)>>)
     /\ routeResult' = <<result>>
  /\ routeCell' = Absent
  /\ UNCHANGED <<actions, agentCell, results>>
  /\ UNCHANGED <<executorVars, renderVars, installVars>>

\* the cases of the switch of executeAction
KnownTypes ==
  {"create_cell", "update_cell", "delete_cell", "execute_cell",
   "install_package", "update_requirements", "create_file", "run_all_cells",
   "fix_error"}

\* the default branch of the switch is taken
UnknownTypeNever(type) == FALSE
UnknownType(type) == type \notin KnownTypes

\* the actions given in the model: three of the known types, which act on
\* the storage, and a type the switch does not know
AgentActions ==
  [type : {"update_cell", "delete_cell", "execute_cell", "restart_kernel"},
   cellId : CellIds, content : NewContents]

ActionSeqs == UNION {[1..n -> AgentActions] : n \in 0..MaxActions}

\* error.message of the errors thrown
UnknownMessage(type) == <<"Unknown action type: ", type>>
CellNotFound == <<"Cell not found">>

\* the entries executeActions pushes; the value a successful action
\* returned is left out
Ok(type) == [success |-> TRUE, action |-> type, error |-> Absent]
Failed(type, message) ==
  [success |-> FALSE, action |-> type, error |-> <<message>>]

\* executeActions(actions), up to the loop
executeActions(acts) ==
  /\ actions = NotCalled
  /\ actions' = <<acts>>
  /\ UNCHANGED <<store, routeCell, routeResult, agentCell, results>>
  /\ UNCHANGED <<executorVars, renderVars, installVars>>

\* the loop has an action to run and awaits nothing
Looping ==
  /\ actions # NotCalled
  /\ agentCell = Absent
  /\ Len(results) < Len(actions[1])

\* executeActions has returned results
Returned ==
  /\ actions # NotCalled
  /\ agentCell = Absent
  /\ Len(results) = Len(actions[1])

\* one iteration of the loop: executeAction for the next action, up to the
\* push of its entry, or up to the await of pythonExecutor.executeCell
runAction ==
  /\ Looping
  /\ LET a == actions[1][Len(results) + 1]
         updated == UpdateCell(store, a.cellId, a.content, Absent)
     IN
     IF UnknownType(a.type)
     THEN /\ results' = Append(results, Failed(a.type, UnknownMessage(a.type)))
          /\ UNCHANGED <<store, agentCell>>
     ELSE IF a.type = "update_cell"
     THEN /\ store' = updated
          /\ results' = Append(results, Ok(a.type))
          /\ agentCell' = agentCell
     ELSE IF a.type = "delete_cell"
     THEN /\ store' = MapDelete(store, a.cellId)
          /\ results' = Append(results, Ok(a.type))
          /\ agentCell' = agentCell
     ELSE IF ~Has(store, a.cellId)
     THEN /\ results' = Append(results, Failed(a.type, CellNotFound))
          /\ UNCHANGED <<store, agentCell>>
     ELSE IF store[a.cellId].type = "python"
     THEN /\ store' = updated
          /\ agentCell' = <<[id |-> a.cellId, content |-> a.content]>>
          /\ results' = results
     ELSE /\ store' = UpdateCell(updated, a.cellId, a.content, <<a.content>>)
          /\ results' = Append(results, Ok(a.type))
          /\ agentCell' = agentCell
  /\ UNCHANGED <<routeCell, routeResult, actions>>
  /\ UNCHANGED <<executorVars, renderVars, installVars>>

\* the rest of the iteration of an execute_cell action, from the result of
\* pythonExecutor.executeCell on
runActionResolved(result) ==
  /\ agentCell # Absent
  /\ LET cell == agentCell[1] IN
     store' = UpdateCell(store, cell.id, cell.content, <<OutputOf(result)>>)
  /\ results' = Append(results, Ok("execute_cell"))
  /\ agentCell' = Absent
  /\ UNCHANGED <<routeCell, routeResult, actions>>
  /\ UNCHANGED <<executorVars, renderVars, installVars>>

ServerNext ==
  \/ \E id \in CellIds, content \in NewContents : putCell(id, content)
  \/ \E id \in CellIds : deleteCell(id)
  \/ \E id \in CellIds, content \in NewContents : postExecute(id, content)
  \/ \E result \in RouteResults : postExecuteResolved(result)
  \/ \E acts \in ActionSeqs : executeActions(acts)
  \/ runAction
  \/ \E result \in RouteResults : runActionResolved(result)

ServerSpec == Init /\ [][ServerNext]_vars

(***************************************************************************)
(* Properties.                                                             *)
(***************************************************************************)
IsPrefix(s, t) == Len(s) <= Len(t) /\ SubSeq(t, 1, Len(s)) = s

\* the processes that were spawned
Spawned(e) == proc[e] \in {"running", "killed"} \/
              (proc[e] = "closed" /\ exitCode[e] # SpawnErrCode)

\* the calls whose spawn failed
SpawnFailed(e) == proc[e] = "errored" \/
                  (proc[e] = "closed" /\ exitCode[e] = SpawnErrCode)

\* the registry maps hold the process or the session of call e
Registered(e) ==
  \/ Has(activeProcesses, cellId[e]) /\ activeProcesses[cellId[e]] = e
  \/ Has(executionSessions, cellId[e]) /\ executionSessions[cellId[e]] = e

\* C1: on the path without input() the promise of executeCell is resolved by
\* the close event of the process and by nothing else: resolve is not called
\* before the process has closed, it is called once when it closes, and
\* success is true exactly when the exit code is zero.
C1_PlainResolvesOnceWithExitStatus ==
  \A e \in Execs :
    path[e] = "plain" /\ Spawned(e) =>
      IF proc[e] = "closed"
      THEN /\ execPromise[e].state = "resolved"
           /\ execPromise[e].calls = 1
           /\ execPromise[e].value.success = (exitCode[e] = 0)
      ELSE execPromise[e] = NewPromise

C1_Witness ==
  \E e \in Execs :
    /\ path[e] = "plain" /\ proc[e] = "closed" /\ exitCode[e] = 0
    /\ execPromise[e].value.success
    /\ execPromise[e].value.output = ChunkLine
    /\ \E d \in Execs :
         /\ path[d] = "plain" /\ proc[d] = "closed" /\ exitCode[d] = 1
         /\ ~execPromise[d].value.success

\* C2: once the 10000 ms of a call have passed, if its process has not ended
\* by itself or by a cancellation and the detector never classified
\* positive, the promise of executeCell is resolved with success true and an
\* output that is the output accumulated; on both paths.
C2_TimeoutResolvesEveryUnit ==
  \A e \in Execs :
    /\ deadline[e] = "passed"
    /\ ~history[e].matched
    /\ proc[e] = "running" \/ history[e].killedBy = "timeout"
    => /\ execPromise[e].state = "resolved"
       /\ execPromise[e].value.success
       /\ IsPrefix(execPromise[e].value.output, closure[e].output)

\* C3: when stopExecution or stopAllExecution has killed a running process
\* while a request was pending and the process has closed, that request is
\* resolved with success true.
C3_CancelResolvesWithSuccess ==
  \A e \in Execs :
    /\ history[e].killedBy = "cancel"
    /\ history[e].inflight
    /\ proc[e] = "closed"
    => /\ LastRequest(e).state = "resolved"
       /\ LastRequest(e).value.success

\* C4: a session accepts at most one sendInput for each time it began to wait
\* for input: the number of accepted calls never exceeds the number of
\* pauses, and the session waits exactly when one pause is not yet answered.
C4_OneResumePerPause ==
  \A e \in Execs :
    /\ Len(resumePromises[e]) <= history[e].pauses
    /\ history[e].pauses <= Len(resumePromises[e]) + 1
    /\ session[e].isWaitingForInput <=>
         (Len(resumePromises[e]) < history[e].pauses)

C4_Witness ==
  \E e \in Execs :
    /\ path[e] = "interactive" /\ proc[e] = "running"
    /\ Has(executionSessions, cellId[e]) /\ executionSessions[cellId[e]] = e
    /\ history[e].pauses = 1
    /\ Len(resumePromises[e]) = 1
    /\ Len(stdinLog[e]) = 2
    /\ sendInputThrows(cellId[e])

\* C5: after stopAllExecution, when no executeCell has been called since and
\* the close event of every process has been handled, both maps are empty.
C5_StopAllEmptiesRegistry ==
  stopAllSeen /\ (\A e \in Execs : ~Live(e)) =>
    activeProcesses = << >> /\ executionSessions = << >>

C5_Witness ==
  /\ stopAllSeen
  /\ \A e \in Execs : proc[e] = "closed" /\ history[e].killedBy = "cancel"
  /\ \E e \in Execs : path[e] = "interactive"
  /\ activeProcesses = << >> /\ executionSessions = << >>

\* C6: sendInput never throws, whatever the identifier and the state of its
\* session, and stopExecution of an unregistered identifier returns false.
C6_InvalidOperationsNeverRaise ==
  \A id \in Ids :
    /\ ~sendInputThrows(id)
    /\ ~Has(activeProcesses, id) => ~stopExecutionReturns(id)

\* C7: a write of sendInput to the stdin of a process that has ended is never
\* left as an 'error' event without a listener, and the request of that call
\* is resolved with success false.
C7_ResumeWriteFailureIsCaught ==
  /\ ~fault
  /\ \A e \in Execs :
       Len(resumePromises[e]) + 1 > Len(stdinLog[e]) /\ path[e] = "interactive" =>
         /\ LastRequest(e).state = "resolved"
         /\ ~LastRequest(e).value.success

\* C8: when the spawn of a call fails, on either path, the promise of
\* executeCell is resolved (never rejected) with success false and the
\* message of the error as error text, and the maps no longer hold the
\* process or the session of that call.
C8_SpawnFailureResolvesFailed ==
  \A e \in Execs :
    /\ execPromise[e].state \in {"pending", "resolved"}
    /\ SpawnFailed(e) =>
         /\ execPromise[e].state = "resolved"
         /\ execPromise[e].value =
              Result(<<>>, SpawnErrMessage, FALSE, FALSE, <<>>)
         /\ ~Registered(e)

C8_Witness ==
  /\ \E e \in Execs : path[e] = "plain" /\ proc[e] = "errored"
  /\ \E e \in Execs : path[e] = "interactive" /\ proc[e] = "closed"
                      /\ exitCode[e] = SpawnErrCode
                      /\ execPromise[e].calls = 2

\* C9: no identifier has two running processes.
C9_OneProcessPerId ==
  \A id \in Ids :
    Cardinality({e \in Execs : cellId[e] = id /\ proc[e] = "running"}) <= 1

\* C10: an execution that has ended (by exit, by timeout, by a failure or by
\* a cancellation) has no running process, and neither map holds its process
\* or its session.
C10_TerminalReleasesAndUnregisters ==
  \A e \in Execs :
    history[e].terminal # "none" => proc[e] # "running" /\ ~Registered(e)

\* the callback of the setTimeout of call e runs in this step
TimeoutFires(e) == deadline[e] = "armed" /\ deadline'[e] = "passed"

\* a stdout 'data' event of the process of call e is handled in this step
StdoutData(e) == closure'[e].output # closure[e].output

\* the if statement of the stdout handler of call e is taken in this step:
\* it is the only place where a 'data' event calls resolve
ClassifiedPositive(e) ==
  StdoutData(e) /\ execPromise'[e].calls = execPromise[e].calls + 1

\* the map holds the process or the session of call e
Holds(map, e) == Has(map, cellId[e]) /\ map[cellId[e]] = e

\* C11: the callback of setTimeout does nothing to a session that waits for
\* input or whose execution has ended: it kills no process and removes no
\* entry of the two maps.
C11_TimeoutActsOnlyWhileRunning ==
  [][\A e \in Execs :
       /\ TimeoutFires(e)
       /\ session[e].isWaitingForInput \/ history[e].terminal # "none"
       => UNCHANGED <<proc, activeProcesses, executionSessions>>]_vars

\* C12: the callback of setTimeout of a call whose process has ended leaves
\* alone every later call with the same identifier: its process, its
\* promises and its entries in the two maps.
C12_StaleTimeoutSparesLaterExecution ==
  [][\A e \in Execs :
       TimeoutFires(e) /\ Spawned(e) /\ proc[e] = "closed" =>
         \A d \in Execs :
           d > e /\ cellId[d] = cellId[e] =>
             /\ proc'[d] = proc[d]
             /\ execPromise'[d] = execPromise[d]
             /\ resumePromises'[d] = resumePromises[d]
             /\ Holds(activeProcesses, d) => Holds(activeProcesses', d)
             /\ Holds(executionSessions, d) => Holds(executionSessions', d)]_vars

\* C13: while a process that was resumed by sendInput waits for input again,
\* the promise of the last sendInput is resolved with isWaitingForInput true
\* and the prompt of the session.
C13_SecondPauseResolvesResume ==
  \A e \in Execs :
    /\ proc[e] = "running"
    /\ session[e].isWaitingForInput
    /\ Len(resumePromises[e]) >= 1
    => /\ LastRequest(e).state = "resolved"
       /\ LastRequest(e).value.isWaitingForInput
       /\ LastRequest(e).value.inputPrompt = session[e].inputPrompt

\* C14: when the callback of setTimeout has killed a process that was running
\* after a sendInput (every pause had been answered) and the process has
\* closed, the promise of the last sendInput is resolved with success true.
C14_TimeoutAfterResumeIsSuccess ==
  \A e \in Execs :
    /\ history[e].killedBy = "timeout"
    /\ Len(resumePromises[e]) >= 1
    /\ Len(resumePromises[e]) = history[e].pauses
    /\ proc[e] = "closed"
    => /\ LastRequest(e).state = "resolved"
       /\ LastRequest(e).value.success

\* C15: when the process of a call was spawned, resolve is called at most
\* once on the promise of executeCell and on the promise of every accepted
\* sendInput.
C15_ResolveCalledOnce ==
  \A e \in Execs :
    Spawned(e) =>
      /\ execPromise[e].calls <= 1
      /\ \A k \in DOMAIN resumePromises[e] : resumePromises[e][k].calls <= 1

\* C16: whenever stopExecution(id) can be called, it returns true exactly when
\* some process spawned for id is running.
C16_CancelFindsEveryLiveProcess ==
  ~ErrorPending =>
    \A id \in Ids :
      stopExecutionReturns(id) <=>
        \E e \in Execs : cellId[e] = id /\ proc[e] = "running"

\* C17: no step shortens or rewrites a transcript: the output and the error
\* text of every session, and of the closure of every call, are prefixes of
\* their values after the step.
C17_TranscriptsAppendOnly ==
  [][\A e \in Execs :
       /\ IsPrefix(session[e].output, session'[e].output)
       /\ IsPrefix(session[e].error, session'[e].error)
       /\ IsPrefix(closure[e].output, closure'[e].output)
       /\ IsPrefix(closure[e].error, closure'[e].error)]_vars

C17_Witness ==
  \E e \in Execs :
    /\ Len(resumePromises[e]) = 1
    /\ history[e].killedBy = "timeout"
    /\ session[e].output = ChunkAsk \o ChunkLine \o ChunkLine
    /\ session[e].error # <<>>

\* C18: an accepted sendInput(id, input) to a running process writes input
\* and a line break to its stdin and clears isWaitingForInput and
\* inputPrompt of the session, and the output of the result its promise is
\* resolved with is the standard output of the process from its start, every
\* chunk once.
C18_ResumeYieldsWholeTranscript ==
  [][\A e \in Execs :
       /\ Len(resumePromises'[e]) = Len(resumePromises[e]) + 1
            /\ proc[e] = "running" =>
            /\ \E input \in Inputs :
                 stdinLog'[e] = Append(stdinLog[e], input \o <<"\n">>)
            /\ ~session'[e].isWaitingForInput
            /\ session'[e].inputPrompt = <<>>
       /\ \A k \in DOMAIN resumePromises[e] :
            /\ resumePromises[e][k].state = "pending"
            /\ resumePromises'[e][k].state = "resolved"
            => resumePromises'[e][k].value.output = closure'[e].output]_vars

\* C20: in every step in which the if statement of the stdout handler is
\* taken, inputPrompt of the session becomes the trimmed last line of the
\* buffer, and the request the caller is waiting for is resolved with a
\* result that has isWaitingForInput true and that prompt.
C20_PositiveYieldsTrimmedPrompt ==
  [][\A e \in Execs :
       ClassifiedPositive(e) =>
         LET prompt == Trim(LastLine(closure'[e].buffer)) IN
         /\ session'[e].isWaitingForInput
         /\ session'[e].inputPrompt = prompt
         /\ LastRequest(e)'.state = "resolved"
         /\ LastRequest(e)'.value.isWaitingForInput
         /\ LastRequest(e)'.value.inputPrompt = prompt]_vars

\* C19: in every step that handles a stdout chunk of an interactive call,
\* the if statement of the handler is taken (isWaitingForInput is set and
\* resolve is called) exactly when the last line of the buffer is not empty,
\* holds neither '>>>' nor '...', and the buffer holds '>>> ' or the chunk
\* ends with ': ' or holds 'Enter ', 'input' or '?'; otherwise the step
\* leaves isWaitingForInput as it was and calls no resolve.
C19_DetectorClassifiesByLastLine ==
  [][\A e \in Execs :
       StdoutData(e) /\ path[e] = "interactive" =>
         LET transcript == closure'[e].buffer
             chunk == SubSeq(transcript, Len(closure[e].buffer) + 1,
                             Len(transcript))
             final == LastLine(transcript)
         IN IF /\ final # <<>>
               /\ ~Includes(final, <<">", ">", ">">>)
               /\ ~Includes(final, <<".", ".", ".">>)
               /\ \/ Includes(transcript, <<">", ">", ">", " ">>)
                  \/ EndsWith(chunk, <<":", " ">>)
                  \/ Includes(chunk, <<"E", "n", "t", "e", "r", " ">>)
                  \/ Includes(chunk, <<"i", "n", "p", "u", "t">>)
                  \/ Includes(chunk, <<"?">>)
            THEN ClassifiedPositive(e) /\ session'[e].isWaitingForInput
            ELSE /\ ~ClassifiedPositive(e)
                 /\ session'[e].isWaitingForInput = session[e].isWaitingForInput
    ]_vars

C19_Witness ==
  \E e \in Execs :
    /\ closure[e].buffer = ChunkRepl \o ChunkWord
    /\ session[e].isWaitingForInput
    /\ execPromise[e].calls = 1

\* call e is the last executeCell made with its identifier
Latest(e) == \A d \in Execs : d > e => cellId[d] # cellId[e]

\* C21: a call whose code does not match the regular expression never has
\* an entry in executionSessions, its promise is never resolved with
\* isWaitingForInput true, no sendInput is ever accepted for it, and while
\* it is the last call made with its identifier sendInput with that
\* identifier throws.
C21_PlainPathHasNoSession ==
  \A e \in Execs :
    path[e] = "plain" =>
      /\ ~Holds(executionSessions, e)
      /\ ~execPromise[e].value.isWaitingForInput
      /\ resumePromises[e] = << >>
      /\ stdinLog[e] = << >>
      /\ ~ErrorPending /\ Latest(e) => sendInputThrows(cellId[e])

\* C22: when a process exits with code 1 while a request is pending, the
\* request is resolved with success false and with an error text that is the
\* standard error of the process from its start, every chunk once.
C22_NonZeroExitYieldsErrorText ==
  [][\A e \in Execs :
       /\ proc[e] = "running" /\ proc'[e] = "closed" /\ exitCode'[e] = 1
       /\ LastRequest(e).state = "pending"
       => /\ LastRequest(e)'.state = "resolved"
          /\ ~LastRequest(e)'.value.success
          /\ LastRequest(e)'.value.error = closure'[e].error]_vars

\* the variables of the program that a call of stopExecution or
\* stopAllExecution can be observed through
programVars ==
  <<activeProcesses, executionSessions, proc, exitCode, closure, session,
    execPromise, resumePromises, stdinLog>>

\* C23: stopAllExecution with an empty activeProcesses and stopExecution of
\* an identifier without an entry change nothing in the program;
\* stopExecution of an identifier with an entry leaves the processes and the
\* entries of every other identifier, and every session, as they were.
C23_CancelFrame ==
  [][/\ stopAllExecution /\ activeProcesses = << >> => UNCHANGED programVars
     /\ \A id \in Ids :
          stopExecution(id) =>
            IF ~Has(activeProcesses, id)
            THEN UNCHANGED programVars
            ELSE /\ \A e \in Execs : cellId[e] # id => proc'[e] = proc[e]
                 /\ \A other \in Ids \ {id} :
                      Has(activeProcesses', other) = Has(activeProcesses, other)
                 /\ \A other \in DOMAIN activeProcesses \ {id} :
                      activeProcesses'[other] = activeProcesses[other]
                 /\ UNCHANGED <<executionSessions, session, closure>>]_vars

C23_Witness ==
  \E d, e \in Execs :
    /\ e < d /\ cellId[d] # cellId[e]
    /\ history[d].killedBy = "cancel" /\ ~stopAllSeen
    /\ proc[e] = "running" /\ Holds(activeProcesses, e)

\* C24: when stopExecution or stopAllExecution has killed a running process
\* while a request was pending and the process has closed, the request is
\* resolved with an output that begins with everything the process wrote to
\* its standard output, the chunks handled after the kill included.
C24_LateOutputReachesResult ==
  \A e \in Execs :
    /\ history[e].killedBy = "cancel"
    /\ history[e].inflight
    /\ proc[e] = "closed"
    => /\ LastRequest(e).state = "resolved"
       /\ IsPrefix(closure[e].output, LastRequest(e).value.output)

\* a handler of a live process of call e that deletes entries of the maps
\* runs in this step: the close handler or the callback of setTimeout
HandlerRuns(e) == Live(e) /\ (proc'[e] = "closed" \/ TimeoutFires(e))

\* C27: the close handler and the callback of setTimeout of a call whose
\* process is live leave in the maps the entries that hold a later call.
C27_HandlersRemoveOwnEntries ==
  [][\A e \in Execs :
       HandlerRuns(e) =>
         \A d \in Execs :
           d > e =>
             /\ Holds(activeProcesses, d) => Holds(activeProcesses', d)
             /\ Holds(executionSessions, d) => Holds(executionSessions', d)]_vars

\* C28: session.output and session.error of an interactive call hold every
\* chunk the process wrote once: they equal the output and error variables
\* of the handlers of executeInteractiveCell, to which only those handlers
\* append.
C28_ChunksAppendedOnce ==
  \A e \in Execs :
    path[e] = "interactive" =>
      /\ session[e].output = closure[e].output
      /\ session[e].error = closure[e].error

\* C29: every identifier with an entry in executionSessions has an entry in
\* activeProcesses.
C29_TablesAgree == DOMAIN executionSessions \subseteq DOMAIN activeProcesses

\* C30: no sendInput is accepted for a session whose process stopExecution
\* or stopAllExecution has killed.
C30_NoResumeAfterCancel ==
  [][\A e \in Execs :
       history[e].killedBy = "cancel" =>
         Len(resumePromises'[e]) = Len(resumePromises[e])]_vars

\* C25: the text generateNotebookPy returns is empty for no cells, and
\* otherwise it is made of one section for each cell, in the order of the
\* cells and with one line break between two sections: the section of cell i
\* (counted from 1 over all the cells) is '# Cell i' and the content when
\* the type is python, and '# Markdown Cell i' and the content between two
\* lines of three double quotes otherwise.
C25_ScriptHasOneSectionPerCell ==
  script # NotCalled =>
    LET n == Len(cells)
        text == script[1]
        Title(i) ==
          IF cells[i].type = "python"
          THEN <<"#", " ", "C", "e", "l", "l", " ">>
          ELSE <<"#", " ", "M", "a", "r", "k", "d", "o", "w", "n", " ",
                 "C", "e", "l", "l", " ">>
        Quotes == <<"\"", "\"", "\"", "\n">>
        Body(i) ==
          IF cells[i].type = "python"
          THEN cells[i].content \o <<"\n">>
          ELSE Quotes \o cells[i].content \o <<"\n">> \o Quotes
        Section(i) == Title(i) \o Decimal(i) \o <<"\n">> \o Body(i)
        RECURSIVE Start(_)
        Start(i) ==
          IF i = 1 THEN 0 ELSE Start(i - 1) + Len(Section(i - 1)) + 1
    IN /\ n = 0 => text = << >>
       /\ n > 0 => Len(text) = Start(n) + Len(Section(n))
       /\ \A i \in 1..n :
            /\ SubSeq(text, Start(i) + 1, Start(i) + Len(Section(i)))
                 = Section(i)
            /\ i > 1 => text[Start(i)] = "\n"

C25_Witness ==
  /\ script # NotCalled
  /\ Len(cells) = 2
  /\ cells[1].type = "markdown"
  /\ cells[2].type = "python"

\* C26: the cells can be read back from what generateNotebookIpynb returns:
\* it has one block for each cell, in order; the block is of type code
\* exactly when the cell is of type python; its source is the JSON string of
\* the content of the cell and of no other content; and it has no output
\* exactly when the cell has none, and otherwise the text of its output is
\* the JSON string of the output of the cell and of no other output.
C26_DocumentRoundTrip ==
  notebook # NotCalled =>
    /\ Len(notebook[1].cells) = Len(cells)
    /\ \A i \in 1..Len(cells) :
         LET block == notebook[1].cells[i]
             cell == cells[i]
         IN /\ (block.cell_type = "code") = (cell.type = "python")
            /\ \A c \in Contents :
                 (JsonString(c) = block.source[1]) = (c = cell.content)
            /\ (block.outputs = << >>) = (cell.output = << >>)
            /\ block.outputs # << >> =>
                 \A o \in Outputs \ {<< >>} :
                   (JsonString(o[1]) = block.outputs[1].text[1])
                     = (o = cell.output)

\* C31: every accepted sendInput request is resolved in the end, because the
\* close event of its process is bound to come: while such a request is
\* pending and the process runs, the timeout of the session is still to come
\* or stopExecution can still find the process in activeProcesses.
C31_PendingResumeStaysReachable ==
  \A e \in Execs :
    (/\ resumePromises[e] # << >>
     /\ LastRequest(e).state = "pending"
     /\ proc[e] = "running")
      => deadline[e] = "armed" \/ Holds(activeProcesses, e)

\* the results the caller has received for a call: that of executeCell and
\* those of the accepted sendInput calls
Delivered(e) ==
  (IF execPromise[e].state = "resolved" THEN {execPromise[e].value} ELSE {})
    \cup {resumePromises[e][k].value :
            k \in {j \in DOMAIN resumePromises[e] :
                     resumePromises[e][j].state = "resolved"}}

\* C32: when executeCell has resolved with a result that waits for input and
\* the process then exits with no input forwarded, a result of executeCell
\* or sendInput carries the outcome of the exit: the whole output and error
\* text and success when the exit code is 0.
C32_ExitWhileWaitingIsDelivered ==
  \A e \in Execs :
    (/\ execPromise[e].value.isWaitingForInput
     /\ stdinLog[e] = <<ExecLine>>
     /\ proc[e] = "closed"
     /\ exitCode[e] \in {0, 1})
      => Result(closure[e].output, closure[e].error, Succeeded(exitCode[e]),
                FALSE, <<>>) \in Delivered(e)

\* C33: the result with which executeCell resolves when the stdout handler
\* detects a wait for input has isWaitingForInput true and success false, its
\* output is all the text the process has written to its standard output so
\* far and its error all the text written to its standard error so far, and
\* the step leaves both registry maps as they were.
C33_WaitingResultCarriesTranscripts ==
  [][\A e \in Execs :
       (ClassifiedPositive(e) /\ execPromise[e].state = "pending") =>
         LET v == execPromise'[e].value IN
         /\ execPromise'[e].state = "resolved"
         /\ v.isWaitingForInput
         /\ ~v.success
         /\ v.output = closure'[e].output
         /\ v.error = closure'[e].error
         /\ UNCHANGED <<activeProcesses, executionSessions>>]_vars

C33_Witness ==
  \E e \in Execs :
    /\ execPromise[e].value.isWaitingForInput
    /\ execPromise[e].value.output = ChunkLine \o ChunkAsk
    /\ execPromise[e].value.error = ErrChunk
    /\ Holds(activeProcesses, e)
    /\ Holds(executionSessions, e)

\* C34: the process of installRequirements is in neither registry map; text
\* that looks like a prompt on its output and the timers of the executions
\* do not resolve its request; stopExecution, stopAllExecution and every
\* other step of the executions leave the installation as it is; the request
\* resolves only at the close event of the process, with success exactly when
\* the exit code is 0, or at the error event of a failed spawn, with success
\* false.
C34_InstallationStandsApart ==
  [][/\ installVars' # installVars =>
          UNCHANGED <<activeProcesses, executionSessions>>
     /\ executorVars' # executorVars => UNCHANGED installVars
     /\ pipProcess = "running" => pipPromise.state = "pending"
     /\ pipPromise'.state # pipPromise.state =>
          LET v == pipPromise'.value IN
          /\ ~v.isWaitingForInput
          /\ \/ /\ pipProcess = "running"
                /\ pipProcess' = "closed"
                /\ v.output = pipClosure.output
                /\ v.error = pipClosure.error
                /\ v.success <=> pipExit' = 0
             \/ /\ pipProcess = "spawnfail"
                /\ pipProcess' = "errored"
                /\ ~v.success]_vars

C34_Witness ==
  /\ pipProcess = "closed"
  /\ pipExit = 0
  /\ pipPromise.value.success
  /\ pipPromise.value.output = ChunkAsk \o ChunkLine
  /\ stopAllSeen
  /\ \E e \in Execs : history[e].killedBy = "cancel"
  /\ \E e \in Execs : history[e].killedBy = "timeout"

\* C35: when the execute route completes for a python cell that is still
\* stored, the stored output of the cell is the output text of the result
\* executeCell gave when the result's success is true and its error text
\* when not, also for a result that waits for input, and the cell is marked
\* executed.
C35_RouteStoresOutputOrError ==
  [][(routeCell # Absent /\ routeCell' = Absent) =>
       LET id == routeCell[1].id
           result == routeResult'[1]
       IN
       Has(store', id) =>
         /\ store'[id].output =
              <<IF result.success THEN result.output ELSE result.error>>
         /\ store'[id].executed]_vars

C35_Witness ==
  /\ routeCell = Absent
  /\ routeResult # Absent
  /\ routeResult[1].isWaitingForInput
  /\ Has(store, "c1")
  /\ store["c1"].output = << <<>> >>
  /\ store["c1"].executed

\* C36: executeActions pushes one entry for each action, in the order of the
\* actions and never for an action other than the first one without an
\* entry; the entry of an action of unknown type, or of an execute_cell
\* action whose cell is not stored, has success false and the message of the
\* error thrown, every other entry has success true, and the actions after it
\* are run all the same.
C36_OneEntryPerActionInOrder ==
  [][actions # NotCalled =>
       LET acts == actions[1]
           i == Len(results) + 1
       IN
       /\ Len(results) <= Len(acts)
       /\ \A k \in 1..Len(results) : results[k].action = acts[k].type
       /\ agentCell # Absent =>
            /\ i <= Len(acts)
            /\ acts[i].type = "execute_cell"
            /\ acts[i].cellId = agentCell[1].id
       /\ results' # results =>
            /\ Len(results') = i
            /\ SubSeq(results', 1, Len(results)) = results
            /\ results'[i].action = acts[i].type
            /\ IF acts[i].type \notin KnownTypes
               THEN results'[i] =
                      Failed(acts[i].type, UnknownMessage(acts[i].type))
               ELSE IF /\ acts[i].type = "execute_cell"
                       /\ agentCell = Absent
                       /\ ~Has(store, acts[i].cellId)
               THEN results'[i] = Failed(acts[i].type, CellNotFound)
               ELSE results'[i].success /\ results'[i].error = Absent
       /\ (Len(results) < Len(acts) /\ agentCell = Absent) =>
            ENABLED runAction]_vars

C36_Witness ==
  /\ Returned
  /\ Len(results) = 2
  /\ results[1] = Failed("restart_kernel", UnknownMessage("restart_kernel"))
  /\ results[2] = Ok("execute_cell")

====
